---- MODULE Spec2Model ----
(***************************************************************************)
(* A model of ComfyUIClient (src/src/client.ts): the WebSocket transport   *)
(* adapter (connect, disconnect, the per-event listener lists) and the     *)
(* completion correlator (queuePrompt, getResult, getHistory).             *)
(*                                                                         *)
(* JavaScript runs one task at a time.  Every action below is one run to   *)
(* completion of synchronous code: a call made by the user of the client,  *)
(* a continuation taken from the microtask queue, or an event delivered by *)
(* the environment (a socket event, a fetch response).  Environment events *)
(* are tasks, so they are taken only when the microtask queue is empty.    *)
(***************************************************************************)
EXTENDS Integers, Sequences, FiniteSets, TLC

\* ---------------------------------------------------------------- bounds
MaxConn == 3      \* connect() calls in the runs of SpecConnect
MaxReconn == 2    \* connect() calls in the runs of Spec and of SpecAdapter
MaxWait == 1      \* getResult() calls made by the user of the client
MaxPending == 2   \* getResult() calls pending together in the runs of SpecPair
MaxFetch == 2     \* history fetches one getResult listener may issue
MaxBind == 1      \* on() calls made by the user of the client

Conns == 1..MaxConn
Chans == 1..MaxConn           \* every connect() creates at most one channel
Waits == 1..MaxPending
Jobs == {"j1", "j2"}          \* job identifiers the server may assign
EventNames == {"open", "close", "error", "message"}

\* ---------------------------------------------------------------- values
\* Every value a promise settles with, and every error, is a record of one
\* shape, so that values of different kinds can be compared.
Val(t, n, j) == [t |-> t, n |-> n, j |-> j]
NoVal == Val("none", 0, "")
Void == Val("void", 0, "")
Undefined == Val("undefined", 0, "")
ChanError(c) == Val("ErrorEvent", c, "")          \* the error channel c reports
SyntaxError == Val("SyntaxError", 0, "")          \* thrown by JSON.parse
TypeError == Val("TypeError", 0, "")              \* property read of undefined
FetchError == Val("FetchError", 0, "")            \* a fetch that failed
HistoryEntry(j) == Val("PromptHistory", 0, j)     \* the history sub-record of job j

Pending == [st |-> "pending", val |-> NoVal]

\* new Promise: resolve and reject settle a pending promise and are no-ops
\* on a settled one.
Resolve(p, v) == IF p.st = "pending" THEN [st |-> "resolved", val |-> v] ELSE p
Reject(p, e) == IF p.st = "pending" THEN [st |-> "rejected", val |-> e] ELSE p
Settled(p) == p.st # "pending"

\* ---------------------------------------------------------------- callbacks
\* A callback is identified by the closure that created it: the four
\* handlers bound by connect() call i, the onMessage listener of getResult
\* call i, or a callback of the user of the client.
Cb(k, i) == [k |-> k, i |-> i]
OpenCb(i) == Cb("open", i)
CloseCb(i) == Cb("close", i)
ErrorCb(i) == Cb("error", i)
MessageCb(i) == Cb("message", i)
OnMessage(w) == Cb("onMessage", w)
UserCb(u) == Cb("user", u)
UserCbs == {UserCb(1), UserCb(2)}
\* A callback of the user that calls off(...) when it is invoked.
Detacher(u) == Cb("detach", u)
Detachers == {Detacher(1), Detacher(2)}

EmptyHandlers == [e \in EventNames |-> <<>>]

\* ---------------------------------------------------------------- frames
\* An inbound WebSocket frame.  bin: a binary frame.  For a text frame, wf
\* says whether its text is well-formed JSON, and type, hasData, node and
\* pid describe the JSON document: its "type", whether it has "data", and
\* data.node ("" when null or absent) and data.prompt_id.
Frame(bin, wf, type, hasData, node, pid) ==
    [bin |-> bin, wf |-> wf, type |-> type, hasData |-> hasData, node |-> node, pid |-> pid]
NoFrame == Frame(FALSE, FALSE, "", FALSE, "", "")
BinaryFrame == Frame(TRUE, FALSE, "", FALSE, "", "")
Malformed == Frame(FALSE, FALSE, "{", FALSE, "", "")
Executing(node, pid) == Frame(FALSE, TRUE, "executing", TRUE, node, pid)
ExecutingNoData == Frame(FALSE, TRUE, "executing", FALSE, "", "")
Status(pid) == Frame(FALSE, TRUE, "status", TRUE, "", pid)
Frames ==
    {BinaryFrame, Malformed, ExecutingNoData, Status("j1")}
        \cup {Executing(n, j) : n \in {"", "5"}, j \in Jobs}

\* JSON.parse(data.toString()): throws on text that is not JSON, otherwise
\* yields the document.
JSONParse(f) ==
    [throws |-> ~f.wf,
     message |-> [type |-> f.type, hasData |-> f.hasData, node |-> f.node, prompt_id |-> f.pid]]

\* A call of the generic event callback: eventEmitter(type, data).
Emit(type, err, frame) == [type |-> type, err |-> err, frame |-> frame]

\* ---------------------------------------------------------------- REST bodies
\* The decoded body of a response to POST /prompt.
PromptBody(error, id) == [error |-> error, prompt_id |-> id]
PromptBodies ==
    {PromptBody(FALSE, j) : j \in Jobs} \cup {PromptBody(TRUE, ""), PromptBody(TRUE, "j1")}

\* The decoded body of a response to GET /history/{id}: keys are the job
\* identifiers it has an entry for.
HistoryBody(error, keys) == [error |-> error, keys |-> keys]
HistoryBodies(j) == {HistoryBody(TRUE, {}), HistoryBody(FALSE, {}), HistoryBody(FALSE, {j})}
\* The bodies a history response may carry.
AllHistoryBodies == UNION {HistoryBodies(j) : j \in Jobs}

\* JSON.stringify(json) of a body, as carried by new Error(...).
StringifyPrompt(b) ==
    Val("Error", 0, (IF b.error THEN "{error" ELSE "{") \o
                    (IF b.prompt_id = "" THEN "}" ELSE ",prompt_id:" \o b.prompt_id \o "}"))
StringifyHistory(b) == Val("Error", Cardinality(b.keys), IF b.error THEN "{error}" ELSE "{}")

\* ---------------------------------------------------------------- REST requests
\* A string built by a template literal is the sequence of its pieces, so
\* that what a URL is made of can be told apart.  A base address is written
\* with its scheme cut at "http", the one substring connect() looks for.
Hosts == {<<"http", "://a:8188">>}
OtherHost == <<"http", "://other">>
Tokens == {"", "t1"}          \* "" stands for an undefined token
ClientId == "cid"
Builds == {"client.ts", "part_000"}

\* String.prototype.replace(pat, by) with a string pattern: the first
\* occurrence only.
RECURSIVE ReplaceFirst(_, _, _)
ReplaceFirst(q, pat, by) ==
    IF q = <<>> THEN <<>>
    ELSE IF Head(q) = pat THEN <<by>> \o Tail(q)
    ELSE <<Head(q)>> \o ReplaceFirst(Tail(q), pat, by)

\* An argument of getHistory or getQueue: undefined, a string, or an
\* override object { host, method } (method "" when the object has none).
Arg(k, s, h, m) == [k |-> k, s |-> s, host |-> h, method |-> m]
NoArg == Arg("undefined", "", <<>>, "")
Str(s) == Arg("string", s, <<>>, "")
Option(h, m) == Arg("object", "", h, m)
Truthy(a) == a.k = "object" \/ (a.k = "string" /\ a.s # "")
\* fetchOption.host and fetchOption.method: undefined on a string.
HostOf(a) == IF a.k = "object" THEN a.host ELSE <<"undefined">>
MethodOf(a) == IF a.k = "object" THEN a.method ELSE ""
Options == {NoArg, Option(OtherHost, "GET"), Option(OtherHost, "")}

\* fetch(url, { method, headers }): an absent method is GET and the
\* standard methods are upper-cased.  Headers are name-value pairs.
Normalize(m) ==
    IF m \in {"", "get", "GET"} THEN "GET" ELSE IF m \in {"post", "POST"} THEN "POST" ELSE m
Req(method, url, headers) == [method |-> Normalize(method), url |-> url, headers |-> headers]
JsonHeaders == {<<"Accept", "application/json">>, <<"Content-Type", "application/json">>}
\* { ...a, ...b }
Spread(a, b) == {p \in a : \A q \in b : q[1] # p[1]} \cup b

\* The WebSocket URL of connect().
WsUrl(h, t) ==
    ReplaceFirst(h, "http", "ws") \o <<"/ws?clientId=", ClientId>>
        \o (IF t # "" THEN <<"&token=", t>> ELSE <<>>)

\* src/src/client.ts: getRequestHeaders, getUrl and the requests built
\* with them.
GetRequestHeaders(t) == IF t # "" THEN {<<"Authorization", "Bearer " \o t>>} ELSE {}
GetUrl(h, path, params) == h \o path \o (IF params # <<>> THEN <<"?">> \o params ELSE <<>>)
ViewParams(filename, subfolder, type) ==
    <<"filename=", filename, "&subfolder=", subfolder, "&type=", type>>

GetEmbeddingsRequest(h, t) == Req("", GetUrl(h, <<"/embeddings">>, <<>>), GetRequestHeaders(t))
QueuePromptRequest(h, t) ==
    Req("POST", GetUrl(h, <<"/prompt">>, <<>>), Spread(JsonHeaders, GetRequestHeaders(t)))
GetImageRequest(h, t, filename, subfolder, type) ==
    Req("", GetUrl(h, <<"/view">>, ViewParams(filename, subfolder, type)), GetRequestHeaders(t))
DeleteQueueRequest(h, t) ==
    Req("POST", GetUrl(h, <<"/queue">>, <<>>), Spread(JsonHeaders, GetRequestHeaders(t)))

\* The other REST methods, each by its name, the method and the headers it
\* writes in its fetch options, and the path it builds:
\* `/view_metadata/${folderName}?filename=${filename}` and
\* `/object_info` + (nodeClass ? `/${nodeClass}` : '') among them.
Call(fn, method, path, headers) ==
    [fn |-> fn, method |-> method, path |-> path, headers |-> headers]
ViewMetadataPath(folderName, filename) ==
    <<"/view_metadata/", folderName, "?filename=", filename>>
ObjectInfoPath(nodeClass) ==
    <<"/object_info">> \o (IF Truthy(nodeClass) THEN <<"/", nodeClass.s>> ELSE <<>>)
RestCalls ==
    {Call("getExtensions", "", <<"/extensions">>, {}),
     Call("interrupt", "POST", <<"/interrupt">>, JsonHeaders),
     Call("editHistory", "POST", <<"/history">>, JsonHeaders),
     Call("uploadImage", "POST", <<"/upload/image">>, {}),
     Call("uploadMask", "POST", <<"/upload/mask">>, {}),
     Call("viewMetadata", "", ViewMetadataPath("output", "a.png"), {}),
     Call("getSystemStats", "", <<"/system_stats">>, {}),
     Call("getPrompt", "", <<"/prompt">>, {}),
     Call("getObjectInfo", "", ObjectInfoPath(NoArg), {}),
     Call("getObjectInfo", "", ObjectInfoPath(Str("KSampler")), {})}
\* fetch(this.getUrl(path), { method, headers: { ..., ...this.getRequestHeaders() } })
CallRequest(h, t, call) ==
    Req(call.method, GetUrl(h, call.path, <<>>), Spread(call.headers, GetRequestHeaders(t)))

\* getHistory(fetchOptionOrPromptId, promptId): one string argument is the
\* prompt id, otherwise the first argument is the override.
HistoryArgs(a1, a2) ==
    IF a1.k = "string" /\ a2.k = "undefined"
    THEN [fetchOption |-> NoArg, actualPromptId |-> a1]
    ELSE [fetchOption |-> a1, actualPromptId |-> a2]
HistoryUrl(h, a) ==
    (IF Truthy(a.fetchOption) THEN HostOf(a.fetchOption) ELSE h) \o <<"/history">>
        \o (IF Truthy(a.actualPromptId) THEN <<"/", a.actualPromptId.s>> ELSE <<>>)
GetHistoryRequest(h, t, a1, a2) ==
    LET a == HistoryArgs(a1, a2) IN
    Req(IF Truthy(a.fetchOption) THEN MethodOf(a.fetchOption) ELSE "get",
        HistoryUrl(h, a), GetRequestHeaders(t))

GetQueueRequest(h, t, fo) ==
    Req(IF Truthy(fo) THEN MethodOf(fo) ELSE "get",
        (IF Truthy(fo) THEN HostOf(fo) ELSE h) \o <<"/queue">>, GetRequestHeaders(t))

\* src/unnamed/part_000: the private fetch(path, options, params) and the
\* requests built with it.
Fetch(h, t, path, method, headers, params) ==
    Req(method, h \o path \o (IF params # <<>> THEN <<"?">> \o params ELSE <<>>),
        Spread(headers, IF t # "" THEN {<<"Authorization", "Bearer " \o t>>} ELSE {}))
GetEmbeddingsRequestAlt(h, t) == Fetch(h, t, <<"/embeddings">>, "", {}, <<>>)
QueuePromptRequestAlt(h, t) == Fetch(h, t, <<"/prompt">>, "POST", JsonHeaders, <<>>)
GetImageRequestAlt(h, t, filename, subfolder, type) ==
    Fetch(h, t, <<"/view">>, "", {}, ViewParams(filename, subfolder, type))
DeleteQueueRequestAlt(h, t) == Fetch(h, t, <<"/queue">>, "POST", JsonHeaders, <<>>)
\* this.fetch(path, { method, headers })
CallRequestAlt(h, t, call) == Fetch(h, t, call.path, call.method, call.headers, <<>>)
\* getHistory calls the global fetch itself, with { method } alone.
GetHistoryRequestAlt(h, t, a1, a2) ==
    LET a == HistoryArgs(a1, a2) IN
    Req(IF Truthy(a.fetchOption) THEN MethodOf(a.fetchOption) ELSE "get", HistoryUrl(h, a), {})
\* getQueue hands `${host}/queue` to the private fetch as its path.
GetQueueRequestAlt(h, t, fo) ==
    Fetch(h, t, (IF Truthy(fo) THEN HostOf(fo) ELSE h) \o <<"/queue">>,
          IF Truthy(fo) THEN MethodOf(fo) ELSE "GET", {}, <<>>)

VARIABLES
    window,         \* typeof window !== 'undefined'
    ws,             \* this.ws: the channel held, 0 when undefined
    nchan,          \* channels created so far
    chan,           \* the WebSocket objects created
    handlers,       \* this.handlers
    emitter,        \* the listeners of each WebSocket object (no window)
    nconn,          \* connect() calls made so far
    conn,           \* the connect() calls
    wait,           \* the getResult() calls
    historyResult,  \* this.historyResult
    microtasks,     \* the continuations ready to run
    nbind,          \* on() calls made by the user of the client
    seen,           \* the getResult listeners that were handed their completion message
    passed,         \* the unsettled getResult listeners that were handed a message to ignore
    build,          \* which of the two client sources under src/ is running
    host,           \* this.host
    token,          \* this.token, "" when undefined
    sent,           \* the requests issued by the latest REST call
    img,            \* the getImages() call
    direct,         \* the getHistory() calls made by the user of the client
    server          \* what the server did with the job of each getResult call

\* The session's construction parameters and its REST traffic.
rest == <<build, host, token, sent>>
aux == <<rest, img, direct, server>>

vars ==
    <<window, ws, nchan, chan, handlers, emitter, nconn, conn, wait, historyResult,
      microtasks, nbind, seen, passed, aux>>

Range(q) == {q[i] : i \in DOMAIN q}

\* ---------------------------------------------------------------- listener lists
\* ws.on(event, callback) as defined by connect() when window exists.
WsOn(h, event, callback) ==
    IF event \in DOMAIN h THEN [h EXCEPT ![event] = Append(@, callback)] ELSE h

\* Array.prototype.filter((cb) => cb !== callback).
RECURSIVE FilterNot(_, _)
FilterNot(q, callback) ==
    IF q = <<>> THEN <<>>
    ELSE IF Head(q) # callback THEN <<Head(q)>> \o FilterNot(Tail(q), callback)
    ELSE FilterNot(Tail(q), callback)

\* WsOff with the comparison turned round: it keeps the callback and drops
\* the others.
WsOffKeepsCallback(h, event, callback) ==
    IF event \in DOMAIN h
    THEN [h EXCEPT ![event] = SelectSeq(@, LAMBDA cb : cb = callback)]
    ELSE h

\* ws.off(event, callback) as defined by connect() when window exists.
WsOff(h, event, callback) ==
    IF event \in DOMAIN h THEN [h EXCEPT ![event] = FilterNot(@, callback)] ELSE h

\* Without window, this.ws is an EventEmitter: on(event, callback) appends
\* to the listeners of that one socket.
EmitterOn(em, c, event, callback) == [em EXCEPT ![c][event] = Append(@, callback)]

\* EventEmitter's off(event, callback) removes the most recently added
\* instance of callback from the listeners of that one socket.
RECURSIVE RemoveLast(_, _)
RemoveLast(q, callback) ==
    IF q = <<>> THEN <<>>
    ELSE IF q[Len(q)] = callback THEN SubSeq(q, 1, Len(q) - 1)
    ELSE Append(RemoveLast(SubSeq(q, 1, Len(q) - 1), callback), q[Len(q)])
EmitterOff(em, c, event, callback) == [em EXCEPT ![c][event] = RemoveLast(@, callback)]

\* The callbacks run when channel c emits event: with window, the native
\* handler of every channel walks this.handlers; without, the socket's own
\* listeners.
Listeners(c, event) == IF window THEN handlers[event] ELSE emitter[c][event]

\* ---------------------------------------------------------------- callbacks' code
NewConn == [pc |-> "idle", ch |-> 0, promise |-> Pending]
NewWait ==
    [pc |-> "idle", fo |-> NoArg, job |-> "", promise |-> Pending, inflight |-> 0, issued |-> 0]
\* A getImages() call, the getHistory() calls of the user, and the server's
\* view of a submitted job.
NewImg ==
    [pc |-> "idle", promise |-> Pending, outputs |-> <<>>, n |-> 1, k |-> 1,
     imagesOutput |-> <<>>, outputImages |-> <<>>, inflight |-> 0, log |-> <<>>]
NewDirect == [called |-> 0, inflight |-> 0]
NewServer == [job |-> "", emitted |-> FALSE]

\* OnMessageCall without the comparison of prompt_id to the job waited for.
OnMessageCallAnyJob(wr, f) ==
    IF f.bin THEN wr
    ELSE LET p == JSONParse(f) IN
         IF p.throws THEN [wr EXCEPT !.promise = Reject(@, SyntaxError)]
         ELSE IF p.message.type # "executing" THEN wr
         ELSE IF ~p.message.hasData THEN [wr EXCEPT !.promise = Reject(@, TypeError)]
         ELSE IF p.message.node # "" THEN wr
         ELSE [wr EXCEPT !.inflight = @ + 1, !.issued = @ + 1]

\* OnMessageCall without the test of the node field.
OnMessageCallAnyNode(wr, f) ==
    IF f.bin THEN wr
    ELSE LET p == JSONParse(f) IN
         IF p.throws THEN [wr EXCEPT !.promise = Reject(@, SyntaxError)]
         ELSE IF p.message.type # "executing" THEN wr
         ELSE IF ~p.message.hasData THEN [wr EXCEPT !.promise = Reject(@, TypeError)]
         ELSE IF p.message.prompt_id = wr.job
              THEN [wr EXCEPT !.inflight = @ + 1, !.issued = @ + 1]
              ELSE wr

\* onMessage(data, isBinary) of getResult, up to its first await: wr is the
\* state of the getResult call that owns the listener.
OnMessageCall(wr, f) ==
    IF f.bin THEN wr
    ELSE LET p == JSONParse(f) IN
         IF p.throws THEN [wr EXCEPT !.promise = Reject(@, SyntaxError)]
         ELSE IF p.message.type # "executing" THEN wr
         ELSE IF ~p.message.hasData THEN [wr EXCEPT !.promise = Reject(@, TypeError)]
         ELSE IF p.message.node # "" THEN wr
         ELSE IF p.message.prompt_id = wr.job
              THEN [wr EXCEPT !.inflight = @ + 1, !.issued = @ + 1]
              ELSE wr

\* What a detaching callback of the user removes from the 'message'
\* callbacks when it is invoked: Detacher(1) itself, Detacher(2) the
\* handler that the first connect() bound.
OffTarget(cb) == IF cb = Detacher(1) THEN Detacher(1) ELSE MessageCb(1)

\* The requests the session issues, from whichever of the two sources is
\* running.
GetEmbeddingsSent ==
    IF build = "client.ts" THEN GetEmbeddingsRequest(host, token)
    ELSE GetEmbeddingsRequestAlt(host, token)
QueuePromptSent ==
    IF build = "client.ts" THEN QueuePromptRequest(host, token)
    ELSE QueuePromptRequestAlt(host, token)
GetImageSent(filename, subfolder, type) ==
    IF build = "client.ts" THEN GetImageRequest(host, token, filename, subfolder, type)
    ELSE GetImageRequestAlt(host, token, filename, subfolder, type)
DeleteQueueSent ==
    IF build = "client.ts" THEN DeleteQueueRequest(host, token)
    ELSE DeleteQueueRequestAlt(host, token)
CallSent(call) ==
    IF build = "client.ts" THEN CallRequest(host, token, call)
    ELSE CallRequestAlt(host, token, call)
GetHistorySent(a1, a2) ==
    IF build = "client.ts" THEN GetHistoryRequest(host, token, a1, a2)
    ELSE GetHistoryRequestAlt(host, token, a1, a2)
GetQueueSent(fo) ==
    IF build = "client.ts" THEN GetQueueRequest(host, token, fo)
    ELSE GetQueueRequestAlt(host, token, fo)

\* One callback invoked with the event's argument.  s carries the state the
\* callbacks change: the connect() promises, the getResult calls, the calls
\* of the generic event callback, the requests issued, this.handlers, and
\* the callbacks invoked so far.
Invoke(cb, err, f, s) ==
    LET t == [s EXCEPT !.calls = Append(@, cb)] IN
    CASE cb.k = "open" -> [t EXCEPT !.conn[cb.i].promise = Resolve(@, Void)]
      [] cb.k = "close" -> t
      [] cb.k = "error" ->
            [t EXCEPT !.conn[cb.i].promise = Reject(@, err),
                      !.emits = Append(@, Emit("error", err, NoFrame))]
      [] cb.k = "message" ->
            IF f.bin THEN t ELSE [t EXCEPT !.emits = Append(@, Emit("message", NoVal, f))]
      [] cb.k = "onMessage" ->
            LET wr == OnMessageCall(s.wait[cb.i], f) IN
            [t EXCEPT !.wait[cb.i] = wr,
                      !.reqs = IF wr.issued > s.wait[cb.i].issued
                               THEN Append(@, GetHistorySent(wr.fo, Str(wr.job))) ELSE @]
      [] cb.k = "detach" -> [t EXCEPT !.handlers = WsOff(@, "message", OffTarget(cb))]
      [] OTHER -> t

\* ForEach as an index loop over a list that off() shortens in place: when
\* a callback has detached something, the callback after it is passed over
\* and the walk ends beyond the end of the list, on an undefined entry.
RECURSIVE ForEachInPlace(_, _, _, _)
ForEachInPlace(cbs, err, f, s) ==
    IF cbs = <<>> THEN s
    ELSE LET t == Invoke(Head(cbs), err, f, s) IN
         IF t.handlers = s.handlers THEN ForEachInPlace(Tail(cbs), err, f, t)
         ELSE IF Tail(cbs) = <<>> THEN t
         ELSE ForEachInPlace(Tail(Tail(cbs)), err, f, [t EXCEPT !.fault = TRUE])

\* handlers.forEach((cb) => cb(...)), and EventEmitter's emit: the walk is
\* over the array the event found.  off() assigns a filtered copy to
\* this.handlers[event] and leaves that array as it is, so every callback
\* in it is invoked, in order.
RECURSIVE ForEach(_, _, _, _)
ForEach(cbs, err, f, s) ==
    IF cbs = <<>> THEN s ELSE ForEach(Tail(cbs), err, f, Invoke(Head(cbs), err, f, s))

Dispatch(c, event, err, f) ==
    ForEach(Listeners(c, event), err, f,
            [conn |-> conn, wait |-> wait, emits |-> <<>>, reqs |-> <<>>,
             handlers |-> handlers, calls |-> <<>>, fault |-> FALSE])

\* ---------------------------------------------------------------- REST calls
\* QueuePrompt without the test for an 'error' field.
QueuePromptUnchecked(json) == [throws |-> FALSE, error |-> NoVal, value |-> json]

\* queuePrompt once the response body is decoded.
QueuePrompt(json) ==
    IF json.error
    THEN [throws |-> TRUE, error |-> StringifyPrompt(json), value |-> PromptBody(FALSE, "")]
    ELSE [throws |-> FALSE, error |-> NoVal, value |-> json]

\* GetHistory with "this.historyResult = json" ahead of the test for an
\* 'error' field.
GetHistoryStoresFirst(json, cached) ==
    IF json.error
    THEN [throws |-> TRUE, error |-> StringifyHistory(json), value |-> json,
          historyResult |-> json]
    ELSE [throws |-> FALSE, error |-> NoVal, value |-> json, historyResult |-> json]

\* getHistory once the response body is decoded: what it throws or returns,
\* and what this.historyResult holds after it.
GetHistory(json, cached) ==
    IF json.error
    THEN [throws |-> TRUE, error |-> StringifyHistory(json), value |-> json,
          historyResult |-> cached]
    ELSE [throws |-> FALSE, error |-> NoVal, value |-> json, historyResult |-> json]
\* getHistory when its fetch rejects.
GetHistoryFailed(cached) ==
    [throws |-> TRUE, error |-> FetchError, value |-> HistoryBody(FALSE, {}),
     historyResult |-> cached]

\* historyRes[promptId]
Lookup(json, promptId) == IF promptId \in json.keys THEN HistoryEntry(promptId) ELSE Undefined

Task(k, i, v) == [k |-> k, i |-> i, v |-> v]

\* ---------------------------------------------------------------- Init
\* The client as its constructor leaves it, whatever it was given.
InitClient ==
    /\ window \in BOOLEAN
    /\ ws = 0
    /\ nchan = 0
    /\ chan = [c \in Chans |-> [st |-> "none", closes |-> 0, url |-> <<>>]]
    /\ handlers = EmptyHandlers
    /\ emitter = [c \in Chans |-> EmptyHandlers]
    /\ nconn = 0
    /\ conn = [i \in Conns |-> NewConn]
    /\ wait = [w \in Waits |-> NewWait]
    /\ historyResult = HistoryBody(FALSE, {})
    /\ microtasks = <<>>
    /\ nbind = 0
    /\ seen = [w \in Waits |-> FALSE]
    /\ passed = [w \in Waits |-> FALSE]
    /\ sent = <<>>
    /\ img = NewImg
    /\ direct = NewDirect
    /\ server = [w \in Waits |-> NewServer]

\* new ComfyUIClient(host, clientId): no token.
Init ==
    /\ InitClient
    /\ build = "client.ts"
    /\ host = <<"http", "://a:8188">>
    /\ token = ""

\* new ComfyUIClient(host, clientId, token), with either source.
InitRest ==
    /\ InitClient
    /\ build \in Builds
    /\ host \in Hosts
    /\ token \in Tokens

\* ---------------------------------------------------------------- connect, disconnect
\* this.ws.close()
Close(ch, c) == [ch EXCEPT ![c].closes = @ + 1]

\* DisconnectBody without "this.ws = undefined".
DisconnectBodyKeepsRef(held, ch) ==
    IF held # 0 THEN [ws |-> held, chan |-> Close(ch, held)] ELSE [ws |-> held, chan |-> ch]

\* The body of disconnect(): held is this.ws, ch the WebSocket objects.
DisconnectBody(held, ch) ==
    IF held # 0 THEN [ws |-> 0, chan |-> Close(ch, held)] ELSE [ws |-> held, chan |-> ch]

\* The four this.ws.on(...) calls of connect() call i.
BindAll(h, i) ==
    WsOn(WsOn(WsOn(WsOn(h, "open", OpenCb(i)), "close", CloseCb(i)), "error", ErrorCb(i)),
         "message", MessageCb(i))
EmitterBindAll(em, c, i) ==
    EmitterOn(EmitterOn(EmitterOn(EmitterOn(em, c, "open", OpenCb(i)), c, "close", CloseCb(i)),
                        c, "error", ErrorCb(i)), c, "message", MessageCb(i))

\* connect() from "this.ws = new WebSocket(url)" on: ch is the channels as
\* they are when this code runs.
CreateChannel(i, ch) ==
    LET c == nchan + 1 IN
    /\ nchan' = c
    /\ ws' = c
    /\ chan' = [ch EXCEPT ![c].st = "connecting", ![c].url = WsUrl(host, token)]
    /\ handlers' = IF window THEN BindAll(handlers, i) ELSE handlers
    /\ emitter' = IF window THEN emitter ELSE EmitterBindAll(emitter, c, i)
    /\ conn' = [conn EXCEPT ![i].pc = "done", ![i].ch = c]

\* connect(): the promise executor runs synchronously.  Holding a channel it
\* runs disconnect() and suspends at the await; otherwise it goes on to
\* create the channel at once.
Connect ==
    /\ nconn < MaxConn
    /\ nconn' = nconn + 1
    /\ LET i == nconn + 1
           d == DisconnectBody(ws, chan)
       IN IF ws # 0
          THEN /\ ws' = d.ws
               /\ chan' = d.chan
               /\ conn' = [conn EXCEPT ![i].pc = "await"]
               /\ microtasks' = Append(microtasks, Task("connect", i, NoVal))
               /\ UNCHANGED <<nchan, handlers, emitter>>
          ELSE /\ CreateChannel(i, chan)
               /\ UNCHANGED microtasks
    /\ UNCHANGED <<aux, window, wait, historyResult, nbind, seen, passed>>

\* connect() resumes after "await this.disconnect()".
ConnectResume ==
    /\ microtasks # <<>>
    /\ Head(microtasks).k = "connect"
    /\ CreateChannel(Head(microtasks).i, chan)
    /\ microtasks' = Tail(microtasks)
    /\ UNCHANGED <<aux, window, nconn, wait, historyResult, nbind, seen, passed>>

\* disconnect(), called by the user of the client.
Disconnect ==
    /\ LET d == DisconnectBody(ws, chan) IN ws' = d.ws /\ chan' = d.chan
    /\ UNCHANGED <<aux, window, nchan, handlers, emitter, nconn, conn, wait, historyResult,
                   microtasks, nbind, seen, passed>>

\* ---------------------------------------------------------------- socket events
\* Channel c reports 'open'.
ChanOpen(c) ==
    /\ microtasks = <<>>
    /\ chan[c].st = "connecting" /\ chan[c].closes = 0
    /\ chan' = [chan EXCEPT ![c].st = "open"]
    /\ LET s == Dispatch(c, "open", NoVal, NoFrame) IN
       conn' = s.conn /\ wait' = s.wait /\ handlers' = s.handlers
    /\ UNCHANGED <<aux, window, ws, nchan, emitter, nconn, historyResult, microtasks,
                   nbind, seen, passed>>

\* Channel c reports 'error': while connecting (also after close() was
\* called on it: both the browser and the ws package then report an error
\* before the close), or while open.
ChanErrors(c) ==
    /\ microtasks = <<>>
    /\ \/ chan[c].st = "connecting"
       \/ chan[c].st = "open" /\ chan[c].closes = 0
    /\ chan' = [chan EXCEPT ![c].st = "dead"]
    /\ LET s == Dispatch(c, "error", ChanError(c), NoFrame) IN
       conn' = s.conn /\ wait' = s.wait /\ handlers' = s.handlers
    /\ UNCHANGED <<aux, window, ws, nchan, emitter, nconn, historyResult, microtasks,
                   nbind, seen, passed>>

\* Channel c reports 'close': after close(), or because the server closed
\* it.  (The 'close' that follows an 'error' finds the same listeners and
\* changes nothing more: the channel is dead from the error on.)
ChanClosed(c) ==
    /\ microtasks = <<>>
    /\ chan[c].st = "open"
    /\ chan' = [chan EXCEPT ![c].st = "dead"]
    /\ LET s == Dispatch(c, "close", NoVal, NoFrame) IN
       conn' = s.conn /\ wait' = s.wait /\ handlers' = s.handlers
    /\ UNCHANGED <<aux, window, ws, nchan, emitter, nconn, historyResult, microtasks,
                   nbind, seen, passed>>

\* The frame f completes job j: a text frame, JSON, of kind 'executing',
\* with no current node, naming j.
IsCompletion(f, j) ==
    /\ ~f.bin /\ f.wf /\ f.type = "executing" /\ f.hasData /\ f.node = "" /\ f.pid = j

\* The frame f is one the listener waiting for job j has to ignore: a binary
\* frame, an 'executing' message that names a current node or another job,
\* or a well-formed message of another kind.
Ignorable(f, j) ==
    \/ f.bin
    \/ ~f.bin /\ f.wf /\ f.type = "executing" /\ f.hasData /\ (f.node # "" \/ f.pid # j)
    \/ ~f.bin /\ f.wf /\ f.type # "executing"

\* Frame f arrives on the open channel c.
ChanMessage(c, f) ==
    /\ microtasks = <<>>
    /\ chan[c].st = "open" /\ chan[c].closes = 0
    /\ LET s == Dispatch(c, "message", NoVal, f) IN
       /\ \A w \in Waits : s.wait[w].issued <= MaxFetch
       /\ conn' = s.conn /\ wait' = s.wait /\ handlers' = s.handlers
       /\ sent' = IF s.reqs # <<>> THEN s.reqs ELSE sent
    /\ seen' = [w \in Waits |->
                  seen[w] \/ (OnMessage(w) \in Range(Listeners(c, "message"))
                              /\ wait[w].pc = "listen" /\ IsCompletion(f, wait[w].job))]
    /\ passed' = [w \in Waits |->
                  passed[w] \/ (OnMessage(w) \in Range(Listeners(c, "message"))
                                /\ wait[w].pc = "listen" /\ wait[w].promise.st = "pending"
                                /\ Ignorable(f, wait[w].job))]
    /\ server' = [w \in Waits |->
                    IF server[w].job # "" /\ IsCompletion(f, server[w].job)
                    THEN [server[w] EXCEPT !.emitted = TRUE] ELSE server[w]]
    /\ UNCHANGED <<build, host, token, img, direct, window, ws, nchan, chan, emitter, nconn,
                   historyResult, microtasks, nbind>>

\* ---------------------------------------------------------------- getResult
\* The override getResult is called with: none, which is getResult(prompt),
\* or another host, which is getResult(fetchOption, prompt).
ResultOptions == {NoArg, Option(OtherHost, "GET")}

\* getResult(prompt) and getResult(fetchOption, prompt): fetchOption is
\* kept for the history fetch, queuePrompt issues POST /prompt and the call
\* suspends.
GetResult(w, fo) ==
    /\ wait[w].pc = "idle"
    /\ \A v \in Waits : v < w => wait[v].pc # "idle"
    /\ wait' = [wait EXCEPT ![w].pc = "submit", ![w].fo = fo]
    /\ sent' = <<QueuePromptSent>>
    /\ UNCHANGED <<build, host, token, img, direct, server, window, ws, nchan, chan, handlers,
                   emitter, nconn, conn, historyResult, microtasks, nbind, seen, passed>>

\* this.ws?.on('message', onMessage)
AddListener(w) ==
    /\ handlers' = IF ws # 0 /\ window THEN WsOn(handlers, "message", OnMessage(w)) ELSE handlers
    /\ emitter' = IF ws # 0 /\ ~window
                  THEN EmitterOn(emitter, ws, "message", OnMessage(w)) ELSE emitter

\* RemoveListener taking every getResult listener off the 'message'
\* callbacks, not only the one of call w.
RemoveListenerAll(w) ==
    /\ handlers' = IF ws # 0 /\ window
                   THEN [handlers EXCEPT !["message"] = SelectSeq(@, LAMBDA cb : cb.k # "onMessage")]
                   ELSE handlers
    /\ emitter' = IF ws # 0 /\ ~window
                  THEN [emitter EXCEPT ![ws]["message"] = SelectSeq(@, LAMBDA cb : cb.k # "onMessage")]
                  ELSE emitter

\* this.ws?.off('message', onMessage)
RemoveListener(w) ==
    /\ handlers' = IF ws # 0 /\ window THEN WsOff(handlers, "message", OnMessage(w)) ELSE handlers
    /\ emitter' = IF ws # 0 /\ ~window
                  THEN EmitterOff(emitter, ws, "message", OnMessage(w)) ELSE emitter

\* The response to POST /prompt arrives with the decoded body json:
\* queuePrompt resumes after "await res.json()" and returns or throws, which
\* readies the continuation of getResult.
SubmitResponse(w, json) ==
    /\ microtasks = <<>>
    /\ wait[w].pc = "submit"
    /\ microtasks' = Append(microtasks, Task("getResult", w, QueuePrompt(json)))
    /\ UNCHANGED <<aux, window, ws, nchan, chan, handlers, emitter, nconn, conn, wait,
                   historyResult, nbind, seen, passed>>

\* The POST /prompt request fails: fetch rejects and queuePrompt throws,
\* which readies the continuation of getResult.
SubmitFails(w) ==
    /\ microtasks = <<>>
    /\ wait[w].pc = "submit"
    /\ microtasks' = Append(microtasks,
                            Task("getResult", w, [throws |-> TRUE, error |-> FetchError,
                                                  value |-> PromptBody(FALSE, "")]))
    /\ UNCHANGED <<aux, window, ws, nchan, chan, handlers, emitter, nconn, conn, wait,
                   historyResult, nbind, seen, passed>>

\* getResult resumes after "await this.queuePrompt(prompt)": it fails with
\* what queuePrompt threw, or creates its promise and adds its listener to
\* the channel held by then.
GetResultResume ==
    /\ microtasks # <<>>
    /\ Head(microtasks).k = "getResult"
    /\ LET w == Head(microtasks).i
           r == Head(microtasks).v
       IN IF r.throws
          THEN /\ wait' = [wait EXCEPT ![w].pc = "raised", ![w].promise = Reject(@, r.error)]
               /\ UNCHANGED <<handlers, emitter>>
          ELSE /\ wait' = [wait EXCEPT ![w].pc = "listen", ![w].job = r.value.prompt_id]
               /\ AddListener(w)
    /\ microtasks' = Tail(microtasks)
    /\ UNCHANGED <<aux, window, ws, nchan, chan, nconn, conn, historyResult, nbind, seen, passed>>

\* The response to a GET /history/{promptId} issued by the listener of w
\* arrives with the decoded body json: getHistory resumes after
\* "await res.json()" and stores and returns the body, or throws, which
\* readies the continuation of the listener.
HistoryResponse(w, json) ==
    /\ microtasks = <<>>
    /\ wait[w].inflight > 0
    /\ LET g == GetHistory(json, historyResult) IN
       /\ historyResult' = g.historyResult
       /\ microtasks' = Append(microtasks, Task("onMessage", w, g))
    /\ wait' = [wait EXCEPT ![w].inflight = @ - 1]
    /\ UNCHANGED <<aux, window, ws, nchan, chan, handlers, emitter, nconn, conn, nbind, seen, passed>>

\* The GET /history/{promptId} request fails: getHistory throws, which
\* readies the continuation of the listener.
HistoryFails(w) ==
    /\ microtasks = <<>>
    /\ wait[w].inflight > 0
    /\ microtasks' = Append(microtasks, Task("onMessage", w, GetHistoryFailed(historyResult)))
    /\ wait' = [wait EXCEPT ![w].inflight = @ - 1]
    /\ UNCHANGED <<aux, window, ws, nchan, chan, handlers, emitter, nconn, conn, historyResult,
                   nbind, seen, passed>>

\* onMessage resumes after "await this.getHistory(...)": its catch rejects
\* with what getHistory threw, or it looks its job up in what getHistory
\* returned, removes the listener from the channel held by then and
\* resolves.
OnMessageResume ==
    /\ microtasks # <<>>
    /\ Head(microtasks).k = "onMessage"
    /\ LET w == Head(microtasks).i
           g == Head(microtasks).v
       IN IF g.throws
          THEN /\ wait' = [wait EXCEPT ![w].promise = Reject(@, g.error)]
               /\ UNCHANGED <<handlers, emitter>>
          ELSE /\ RemoveListener(w)
               /\ wait' = [wait EXCEPT ![w].promise = Resolve(@, Lookup(g.value, wait[w].job))]
    /\ microtasks' = Tail(microtasks)
    /\ UNCHANGED <<aux, window, ws, nchan, chan, nconn, conn, historyResult, nbind, seen, passed>>

\* The server accepts the job submitted by getResult call w and assigns it
\* the identifier j: the response to POST /prompt is on its way.
ServerAccepts(w, j) ==
    /\ wait[w].pc = "submit"
    /\ server[w].job = ""
    /\ server' = [server EXCEPT ![w].job = j]
    /\ UNCHANGED <<rest, img, direct, window, ws, nchan, chan, handlers, emitter, nconn, conn,
                   wait, historyResult, microtasks, nbind, seen, passed>>

\* ---------------------------------------------------------------- getImages
MaxNodes == 2      \* output nodes of a history record
MaxPerNode == 2    \* image descriptors of one output node

\* The image descriptor m of output node i, and the blob the server
\* returns for it.
Image(i, m) == [node |-> i, idx |-> m]
Blob(image) == [of |-> image]
\* The filename of a descriptor; its subfolder is "" and its type "output".
Digits == <<"1", "2", "3", "4", "5", "6", "7", "8", "9">>
Filename(image) == "n" \o Digits[image.node] \o "i" \o Digits[image.idx] \o ".png"
\* The request of the fetch the loops have just issued, if they issued
\* one going from im to jm; the requests issued last otherwise.
ImageSent(im, jm, last) ==
    IF Len(jm.log) > Len(im.log)
    THEN <<GetImageSent(Filename(jm.log[Len(jm.log)]), "", "output")>>
    ELSE last

\* The output nodes a history record may have, in the order of
\* Object.keys(history.outputs): node i has no images field, or a list of
\* up to MaxPerNode descriptors.
NodeKinds(i) ==
    {[id |-> i, hasImages |-> FALSE, images |-> <<>>]}
        \cup {[id |-> i, hasImages |-> TRUE, images |-> [m \in 1..len |-> Image(i, m)]] :
                len \in 0..MaxPerNode}
AllNodeKinds == UNION {NodeKinds(i) : i \in 1..MaxNodes}
Outputs ==
    UNION {{h \in [1..n -> AllNodeKinds] : \A i \in 1..n : h[i] \in NodeKinds(i)} :
            n \in 0..MaxNodes}
\* A history record: its outputs field may be missing.
Histories == {[hasOutputs |-> FALSE, outputs |-> <<>>]}
                \cup {[hasOutputs |-> TRUE, outputs |-> o] : o \in Outputs}

\* RunLoop without the await in front of this.getImage(...): the loop goes
\* on while the fetch is in flight.
RECURSIVE RunLoopNoAwait(_)
RunLoopNoAwait(im) ==
    IF im.n > Len(im.outputs)
    THEN [im EXCEPT !.pc = "done", !.promise = Resolve(@, im.outputImages)]
    ELSE LET node == im.outputs[im.n] IN
         IF ~node.hasImages THEN RunLoopNoAwait([im EXCEPT !.n = @ + 1])
         ELSE IF im.k <= Len(node.images)
         THEN RunLoopNoAwait([im EXCEPT !.inflight = @ + 1,
                                        !.log = Append(@, node.images[im.k]),
                                        !.imagesOutput =
                                            Append(@, [blob |-> Blob(node.images[im.k]),
                                                       image |-> node.images[im.k]]),
                                        !.k = @ + 1])
         ELSE RunLoopNoAwait([im EXCEPT !.outputImages = (node.id :> im.imagesOutput) @@ @,
                                        !.n = @ + 1, !.k = 1, !.imagesOutput = <<>>])

\* The two for loops of getImages, run from output node n and descriptor k
\* until the next await or the end: a node without images is passed over,
\* a descriptor left makes the loop issue its fetch and suspend, a node
\* whose descriptors are done is entered in outputImages, and after the
\* last node the promise resolves.
RECURSIVE RunLoop(_)
RunLoop(im) ==
    IF im.n > Len(im.outputs)
    THEN [im EXCEPT !.pc = "done", !.promise = Resolve(@, im.outputImages)]
    ELSE LET node == im.outputs[im.n] IN
         IF ~node.hasImages THEN RunLoop([im EXCEPT !.n = @ + 1])
         ELSE IF im.k <= Len(node.images)
         THEN [im EXCEPT !.pc = "fetch", !.inflight = @ + 1,
                         !.log = Append(@, node.images[im.k])]
         ELSE RunLoop([im EXCEPT !.outputImages = (node.id :> im.imagesOutput) @@ @,
                                 !.n = @ + 1, !.k = 1, !.imagesOutput = <<>>])

\* getImages(prompt): the executor runs getResult up to its first await.
GetImages(w) ==
    /\ img.pc = "idle"
    /\ wait[w].pc = "idle"
    /\ \A v \in Waits : v < w => wait[v].pc # "idle"
    /\ wait' = [wait EXCEPT ![w].pc = "submit", ![w].fo = NoArg]
    /\ img' = [img EXCEPT !.pc = "result"]
    /\ sent' = <<QueuePromptSent>>
    /\ UNCHANGED <<build, host, token, direct, server, window, ws, nchan, chan, handlers,
                   emitter, nconn, conn, historyResult, microtasks, nbind, seen, passed>>

\* getImages resumes after "await this.getResult(prompt)", which settled:
\* a rejection goes to the catch, and so does the TypeError of reading
\* outputs of an undefined history or the keys of undefined outputs;
\* otherwise the loops start on the record h the promise resolved with.
ImagesResume(w, h) ==
    /\ img.pc = "result"
    /\ Settled(wait[w].promise)
    /\ img' = IF wait[w].promise.st = "rejected"
              THEN [img EXCEPT !.pc = "failed", !.promise = Reject(@, wait[w].promise.val)]
              ELSE IF wait[w].promise.val = Undefined \/ ~h.hasOutputs
              THEN [img EXCEPT !.pc = "failed", !.promise = Reject(@, TypeError)]
              ELSE RunLoop([img EXCEPT !.outputs = h.outputs])
    /\ sent' = ImageSent(img, img', sent)
    /\ UNCHANGED <<build, host, token, direct, server, window, ws, nchan, chan, handlers,
                   emitter, nconn, conn, wait, historyResult, microtasks, nbind, seen, passed>>

\* The response to the GET /view in flight arrives: getImage resumes after
\* "await res.blob()" and returns the blob, which readies the continuation
\* of getImages.
ImageResponse ==
    /\ microtasks = <<>>
    /\ img.pc = "fetch" /\ img.inflight > 0
    /\ img' = [img EXCEPT !.inflight = @ - 1]
    /\ microtasks' =
            Append(microtasks,
                   Task("getImages", 0,
                        [throws |-> FALSE, error |-> NoVal,
                         value |-> Blob(img.outputs[img.n].images[img.k])]))
    /\ UNCHANGED <<rest, direct, server, window, ws, nchan, chan, handlers, emitter, nconn,
                   conn, wait, historyResult, nbind, seen, passed>>

\* The GET /view in flight fails: getImage throws, which readies the
\* continuation of getImages.
ImageFails ==
    /\ microtasks = <<>>
    /\ img.pc = "fetch" /\ img.inflight > 0
    /\ img' = [img EXCEPT !.inflight = @ - 1]
    /\ microtasks' =
            Append(microtasks,
                   Task("getImages", 0,
                        [throws |-> TRUE, error |-> FetchError,
                         value |-> Blob(img.outputs[img.n].images[img.k])]))
    /\ UNCHANGED <<rest, direct, server, window, ws, nchan, chan, handlers, emitter, nconn,
                   conn, wait, historyResult, nbind, seen, passed>>

\* getImages resumes after "await this.getImage(...)": its catch rejects
\* with what getImage threw, or the pair is pushed and the loops go on.
GetImagesResume ==
    /\ microtasks # <<>>
    /\ Head(microtasks).k = "getImages"
    /\ LET r == Head(microtasks).v IN
       img' = IF r.throws
              THEN [img EXCEPT !.pc = "failed", !.promise = Reject(@, r.error)]
              ELSE RunLoop([img EXCEPT !.imagesOutput =
                                            Append(@, [blob |-> r.value,
                                                       image |-> img.outputs[img.n].images[img.k]]),
                                       !.k = @ + 1])
    /\ sent' = ImageSent(img, img', sent)
    /\ microtasks' = Tail(microtasks)
    /\ UNCHANGED <<build, host, token, direct, server, window, ws, nchan, chan, handlers,
                   emitter, nconn, conn, wait, historyResult, nbind, seen, passed>>

\* ---------------------------------------------------------------- REST calls by the user
MaxDirect == 1     \* getHistory() calls made by the user of the client

\* The arguments the user calls getHistory with: none, the prompt id alone,
\* and (fetchOption, promptId) with and without an override.
HistoryCalls ==
    {<<NoArg, NoArg>>, <<Str("j1"), NoArg>>, <<NoArg, Str("j2")>>,
     <<Option(OtherHost, "GET"), Str("j1")>>}

\* getEmbeddings(), getImage(...), deleteQueue(id) and getQueue(fetchOption)
\* up to their fetch: what comes back changes nothing in the session.
GetEmbeddings ==
    /\ sent' = <<GetEmbeddingsSent>>
    /\ UNCHANGED <<build, host, token, img, direct, server, window, ws, nchan, chan, handlers,
                   emitter, nconn, conn, wait, historyResult, microtasks, nbind, seen, passed>>

GetImage ==
    /\ sent' = <<GetImageSent("a.png", "", "output")>>
    /\ UNCHANGED <<build, host, token, img, direct, server, window, ws, nchan, chan, handlers,
                   emitter, nconn, conn, wait, historyResult, microtasks, nbind, seen, passed>>

DeleteQueue ==
    /\ sent' = <<DeleteQueueSent>>
    /\ UNCHANGED <<build, host, token, img, direct, server, window, ws, nchan, chan, handlers,
                   emitter, nconn, conn, wait, historyResult, microtasks, nbind, seen, passed>>

GetQueue(fo) ==
    /\ sent' = <<GetQueueSent(fo)>>
    /\ UNCHANGED <<build, host, token, img, direct, server, window, ws, nchan, chan, handlers,
                   emitter, nconn, conn, wait, historyResult, microtasks, nbind, seen, passed>>

\* getExtensions(), interrupt(), editHistory(params), uploadImage(...),
\* uploadMask(...), viewMetadata(folderName, filename), getSystemStats(),
\* getPrompt() and getObjectInfo(nodeClass) called by the user, up to their
\* fetch: what comes back changes nothing in the session.
RestCall(call) ==
    /\ sent' = <<CallSent(call)>>
    /\ UNCHANGED <<build, host, token, img, direct, server, window, ws, nchan, chan, handlers,
                   emitter, nconn, conn, wait, historyResult, microtasks, nbind, seen, passed>>

\* queuePrompt(prompt) called by the user, up to its fetch.
QueuePromptCall ==
    /\ sent' = <<QueuePromptSent>>
    /\ UNCHANGED <<build, host, token, img, direct, server, window, ws, nchan, chan, handlers,
                   emitter, nconn, conn, wait, historyResult, microtasks, nbind, seen, passed>>

\* getHistory(a1, a2) called by the user, up to its fetch.
GetHistoryCall(a1, a2) ==
    /\ direct.called < MaxDirect
    /\ direct' = [called |-> direct.called + 1, inflight |-> direct.inflight + 1]
    /\ sent' = <<GetHistorySent(a1, a2)>>
    /\ UNCHANGED <<build, host, token, img, server, window, ws, nchan, chan, handlers,
                   emitter, nconn, conn, wait, historyResult, microtasks, nbind, seen, passed>>

\* The response to a fetch of such a call arrives with the decoded body
\* json: getHistory stores and returns it, or throws.
DirectHistoryResponse(json) ==
    /\ microtasks = <<>>
    /\ direct.inflight > 0
    /\ direct' = [direct EXCEPT !.inflight = @ - 1]
    /\ historyResult' = GetHistory(json, historyResult).historyResult
    /\ UNCHANGED <<rest, img, server, window, ws, nchan, chan, handlers, emitter, nconn,
                   conn, wait, microtasks, nbind, seen, passed>>

\* The fetch of such a call fails, or its body is not JSON: getHistory
\* throws before it stores anything.
DirectHistoryFails ==
    /\ microtasks = <<>>
    /\ direct.inflight > 0
    /\ direct' = [direct EXCEPT !.inflight = @ - 1]
    /\ UNCHANGED <<rest, img, server, window, ws, nchan, chan, handlers, emitter, nconn,
                   conn, wait, historyResult, microtasks, nbind, seen, passed>>

\* ---------------------------------------------------------------- on, off by the user
\* this.ws.on(event, callback) and this.ws.off(event, callback) called with
\* a callback of the user of the client, on the adapter connect() installs
\* when window exists.
BindNames == EventNames \cup {"progress"}

UserOn(event, cb) ==
    /\ window /\ ws # 0
    /\ nbind < MaxBind
    /\ nbind' = nbind + 1
    /\ handlers' = WsOn(handlers, event, cb)
    /\ UNCHANGED <<aux, window, ws, nchan, chan, emitter, nconn, conn, wait, historyResult,
                   microtasks, seen, passed>>

UserOff(event, cb) ==
    /\ window /\ ws # 0
    /\ handlers' = WsOff(handlers, event, cb)
    /\ UNCHANGED <<aux, window, ws, nchan, chan, emitter, nconn, conn, wait, historyResult,
                   microtasks, nbind, seen, passed>>

\* ---------------------------------------------------------------- specifications
\* The client with its correlator: connect, disconnect, the socket's events
\* and getResult with its two REST calls.
Next ==
    \/ nconn < MaxReconn /\ Connect
    \/ ConnectResume
    \/ Disconnect
    \/ \E c \in Chans : ChanOpen(c)
    \/ \E c \in Chans : ChanErrors(c)
    \/ \E c \in Chans : ChanClosed(c)
    \/ \E c \in Chans, f \in Frames : ChanMessage(c, f)
    \/ \E w \in 1..MaxWait, fo \in ResultOptions : GetResult(w, fo)
    \/ \E w \in Waits, json \in PromptBodies : SubmitResponse(w, json)
    \/ \E w \in Waits : SubmitFails(w)
    \/ \E w \in Waits : \E json \in HistoryBodies(wait[w].job) : HistoryResponse(w, json)
    \/ \E w \in Waits : HistoryFails(w)
    \/ GetResultResume
    \/ OnMessageResume

Spec == Init /\ [][Next]_vars

\* The transport adapter, with a user of the client who also binds and
\* unbinds callbacks of their own: no getResult is called.
NextAdapter ==
    \/ nconn < MaxReconn /\ Connect
    \/ ConnectResume
    \/ Disconnect
    \/ \E c \in Chans : ChanOpen(c)
    \/ \E c \in Chans : ChanErrors(c)
    \/ \E c \in Chans : ChanClosed(c)
    \/ \E c \in Chans, f \in Frames : ChanMessage(c, f)
    \/ \E e \in BindNames, cb \in UserCbs : UserOn(e, cb)
    \/ \E e \in BindNames, cb \in UserCbs : UserOff(e, cb)

SpecAdapter == Init /\ [][NextAdapter]_vars

\* The dispatch of events to callbacks that detach callbacks: the channel's
\* life cycle, and a user who binds plain and detaching callbacks to
\* 'message'.
NextDispatch ==
    \/ nconn < MaxReconn /\ Connect
    \/ ConnectResume
    \/ \E c \in Chans : ChanOpen(c)
    \/ \E c \in Chans : ChanErrors(c)
    \/ \E c \in Chans : ChanClosed(c)
    \/ \E c \in Chans, f \in Frames : ChanMessage(c, f)
    \/ \E cb \in Detachers \cup {UserCb(1)} : UserOn("message", cb)

SpecDispatch == Init /\ [][NextDispatch]_vars

\* The channel's life cycle alone, with one more connect() call.
NextConnect ==
    \/ Connect
    \/ ConnectResume
    \/ Disconnect
    \/ \E c \in Chans : ChanOpen(c)
    \/ \E c \in Chans : ChanErrors(c)
    \/ \E c \in Chans : ChanClosed(c)
    \/ \E c \in Chans, f \in Frames : ChanMessage(c, f)

SpecConnect == Init /\ [][NextConnect]_vars

\* getImages: connect() and disconnect() at any time, one getImages() call
\* with the getResult call it makes, and the image fetches.
NextImages ==
    \/ nconn < MaxReconn /\ Connect
    \/ ConnectResume
    \/ Disconnect
    \/ \E c \in Chans : ChanOpen(c)
    \/ \E c \in Chans : ChanErrors(c)
    \/ \E c \in Chans : ChanClosed(c)
    \/ \E c \in Chans, f \in Frames : ChanMessage(c, f)
    \/ \E w \in 1..MaxWait : GetImages(w)
    \/ \E w \in Waits, json \in PromptBodies : SubmitResponse(w, json)
    \/ \E w \in Waits : SubmitFails(w)
    \/ \E w \in Waits : \E json \in HistoryBodies(wait[w].job) : HistoryResponse(w, json)
    \/ \E w \in Waits : HistoryFails(w)
    \/ GetResultResume
    \/ OnMessageResume
    \/ \E w \in Waits, h \in Histories : ImagesResume(w, h)
    \/ ImageResponse
    \/ ImageFails
    \/ GetImagesResume

SpecImages == Init /\ [][NextImages]_vars

\* The session's history traffic: a session built from either source, with
\* or without a token, connect() and disconnect() at any time, getResult of
\* either form with its two REST calls, the completion messages that make
\* its listener fetch the history, and getHistory called by the user.
NextRest ==
    \/ nconn < MaxReconn /\ Connect
    \/ ConnectResume
    \/ Disconnect
    \/ \E c \in Chans : ChanOpen(c)
    \/ \E c \in Chans, j \in Jobs : ChanMessage(c, Executing("", j))
    \/ \E w \in 1..MaxWait, fo \in ResultOptions : GetResult(w, fo)
    \/ \E w \in Waits, json \in PromptBodies : SubmitResponse(w, json)
    \/ \E w \in Waits : \E json \in HistoryBodies(wait[w].job) : HistoryResponse(w, json)
    \/ \E w \in Waits : HistoryFails(w)
    \/ GetResultResume
    \/ OnMessageResume
    \/ \E a \in HistoryCalls : GetHistoryCall(a[1], a[2])
    \/ \E json \in HistoryBodies("j1") : DirectHistoryResponse(json)
    \/ DirectHistoryFails

SpecRest == InitRest /\ [][NextRest]_vars

\* The other REST methods called by the user of such a session, in any
\* order, with its connect() and disconnect() calls.
NextCalls ==
    \/ nconn < MaxReconn /\ Connect
    \/ ConnectResume
    \/ Disconnect
    \/ \E c \in Chans : ChanOpen(c)
    \/ GetEmbeddings
    \/ GetImage
    \/ DeleteQueue
    \/ \E fo \in Options : GetQueue(fo)
    \/ \E call \in RestCalls : RestCall(call)
    \/ QueuePromptCall

SpecCalls == InitRest /\ [][NextCalls]_vars

\* The frames of a server that sends no frame a listener rejects on.
LiveFrames == Frames \ {Malformed, ExecutingNoData}

\* getResult on an open channel with a server that does its part: the
\* channel is set up before getResult is called and is left alone after;
\* the server accepts the job, answers POST /prompt with the identifier it
\* assigned, emits the completion message of the job once, at any time
\* after accepting it, and answers the history fetch with the job's entry.
NextLive ==
    \/ /\ nconn < MaxReconn
       /\ \A w \in Waits : wait[w].pc = "idle"
       /\ Connect
    \/ ConnectResume
    \/ \E c \in Chans : ChanOpen(c)
    \/ \E c \in Chans : chan[c].closes > 0 /\ ChanClosed(c)
    \/ \E c \in Chans, f \in LiveFrames :
            /\ \A w \in Waits : IsCompletion(f, server[w].job) => ~server[w].emitted
            /\ ChanMessage(c, f)
    \/ \E w \in 1..MaxWait :
            /\ ws # 0 /\ chan[ws].st = "open" /\ chan[ws].closes = 0
            /\ \E fo \in ResultOptions : GetResult(w, fo)
    \/ \E w \in Waits, j \in Jobs : ServerAccepts(w, j)
    \/ \E w \in Waits :
            /\ server[w].job # ""
            /\ SubmitResponse(w, PromptBody(FALSE, server[w].job))
    \/ \E w \in Waits : HistoryResponse(w, HistoryBody(FALSE, {wait[w].job}))
    \/ GetResultResume
    \/ OnMessageResume

\* The event loop runs the continuations that are ready, the responses and
\* the completion message arrive.
FairLive ==
    /\ WF_vars(ConnectResume)
    /\ WF_vars(GetResultResume)
    /\ WF_vars(OnMessageResume)
    /\ WF_vars(\E c \in Chans : ChanOpen(c))
    /\ WF_vars(\E w \in Waits, j \in Jobs : ServerAccepts(w, j))
    /\ WF_vars(\E w \in Waits : server[w].job # ""
                                   /\ SubmitResponse(w, PromptBody(FALSE, server[w].job)))
    /\ WF_vars(\E w \in Waits : HistoryResponse(w, HistoryBody(FALSE, {wait[w].job})))
    /\ WF_vars(\E c \in Chans, w \in Waits :
                    /\ server[w].job # "" /\ ~server[w].emitted
                    /\ ChanMessage(c, Executing("", server[w].job)))

SpecLive == Init /\ [][NextLive]_vars /\ FairLive

\* Several getResult calls pending on one session: connect() and
\* disconnect() at any time, the getResult calls of either form, whose jobs
\* the server accepts under any identifier, their history fetches, whose
\* responses arrive in any order and with any body, and the completion
\* messages of the jobs in any order and on any channel, each listener
\* issuing one history fetch at most.
NextPair ==
    \/ nconn < MaxReconn /\ Connect
    \/ ConnectResume
    \/ Disconnect
    \/ \E c \in Chans : ChanOpen(c)
    \/ \E c \in Chans, j \in Jobs :
            /\ \A w \in Waits :
                    Dispatch(c, "message", NoVal, Executing("", j)).wait[w].issued <= 1
            /\ ChanMessage(c, Executing("", j))
    \/ \E w \in Waits, fo \in ResultOptions : GetResult(w, fo)
    \/ \E w \in Waits, j \in Jobs : SubmitResponse(w, PromptBody(FALSE, j))
    \/ \E w \in Waits, json \in AllHistoryBodies : HistoryResponse(w, json)
    \/ \E w \in Waits : HistoryFails(w)
    \/ GetResultResume
    \/ OnMessageResume

SpecPair == Init /\ [][NextPair]_vars

\* ---------------------------------------------------------------- properties
\* Channel c was created and is not closed: close() was not called on it
\* and it did not report 'error' or 'close'.
Live(c) == chan[c].st \in {"connecting", "open"} /\ chan[c].closes = 0

\* The listener of getResult call w is attached where a later frame finds
\* it: in this.handlers, which every channel created with window walks, or
\* among the listeners of a socket that is not closed.
Attached(w) ==
    IF window
    THEN OnMessage(w) \in Range(handlers["message"])
    ELSE \E c \in Chans : Live(c) /\ OnMessage(w) \in Range(emitter[c]["message"])

\* C1: the promise of a getResult call that was assigned job J resolves only
\* after its listener was handed a text message of kind 'executing' with an
\* empty node and prompt_id J, and once settled it never changes: it
\* resolves at most once and messages naming other jobs cannot resolve it.
C1_ResolvesOnlyOnOwnCompletion ==
    /\ [](\A w \in Waits : wait[w].promise.st = "resolved" => seen[w])
    /\ [][\A w \in Waits : Settled(wait[w].promise) => wait'[w].promise = wait[w].promise]_vars

\* A getResult call resolved with the history entry of its own job, after a
\* completion message.
C1_Witness ==
    \E w \in Waits :
        /\ seen[w]
        /\ wait[w].promise = [st |-> "resolved", val |-> HistoryEntry(wait[w].job)]

\* C2: once a getResult promise has resolved, its listener is attached to no
\* listener list any more.
C2_DetachedOnceResolved ==
    \A w \in Waits : wait[w].promise.st = "resolved" => ~Attached(w)

\* C3: the getResult listener detaches itself on each path that settles the
\* wait: once the wait has resolved, or was rejected because a message
\* failed JSON parsing, the listener is attached no more.
C3_DetachedOnEverySettlingPath ==
    \A w \in Waits :
        \/ wait[w].promise.st = "resolved"
        \/ wait[w].promise = [st |-> "rejected", val |-> SyntaxError]
        => ~Attached(w)

\* C4: at most one channel created by the client is open (created and not
\* yet closed) at any time.
C4_AtMostOneOpenChannel == Cardinality({c \in Chans : Live(c)}) <= 1

\* The calls of the generic event callback made when channel c reports
\* 'error', and when frame f arrives on channel c.
ErrorEmits(c) == Dispatch(c, "error", ChanError(c), NoFrame).emits
MessageEmits(c, f) == Dispatch(c, "message", NoVal, f).emits

\* C5: the promise of a connect() call settles at most once; it resolves
\* only when the channel that call created reports 'open'; when that channel
\* reports 'error' before 'open' the promise is rejected with that error;
\* and every channel error reaches the generic event callback as 'error'.
C5_ConnectPromise ==
    /\ [](\A c \in Chans :
            chan[c].st \in {"connecting", "open"} =>
                Emit("error", ChanError(c), NoFrame) \in Range(ErrorEmits(c)))
    /\ [][\A i \in Conns :
            /\ Settled(conn[i].promise) => conn'[i].promise = conn[i].promise
            /\ conn[i].promise.st = "pending" /\ conn'[i].promise.st = "resolved" =>
                    /\ conn[i].ch # 0
                    /\ chan[conn[i].ch].st = "connecting"
                    /\ chan'[conn[i].ch].st = "open"
            /\ conn[i].ch # 0 /\ chan[conn[i].ch].st = "connecting"
                    /\ ChanErrors(conn[i].ch) =>
                    conn'[i].promise = [st |-> "rejected", val |-> ChanError(conn[i].ch)]
         ]_vars

\* C7: a binary frame on the session's channel never invokes the generic
\* event callback, and a text frame invokes it exactly once, with kind
\* 'message' and the frame's payload, whatever connect() and disconnect()
\* calls came before.
C7_GenericCallbackOncePerFrame ==
    \A f \in Frames :
        ws # 0 /\ chan[ws].st = "open" /\ chan[ws].closes = 0 =>
            MessageEmits(ws, f) = IF f.bin THEN <<>> ELSE <<Emit("message", NoVal, f)>>

\* The entries of q other than cb, in their order.
Others(q, cb) == SelectSeq(q, LAMBDA x : x # cb)

\* C6: on(event, cb) appends cb to the callbacks of that event and removes
\* or replaces none, off(event, cb) removes only entries equal to cb: the
\* other callbacks of that event stay, in their order, and the callbacks of
\* the other events are not touched.  The four on() calls of connect()
\* append to what earlier calls bound as well.
C6_OnAppendsOffRemovesOnlyCb ==
    [][/\ \A e \in BindNames, cb \in UserCbs :
            UserOn(e, cb) =>
                \A n \in EventNames :
                    handlers'[n] = IF n = e THEN Append(handlers[n], cb) ELSE handlers[n]
       /\ \A e \in BindNames, cb \in UserCbs :
            UserOff(e, cb) =>
                \A n \in EventNames :
                    IF n = e
                    THEN /\ Others(handlers'[n], cb) = Others(handlers[n], cb)
                         /\ Len(handlers'[n]) <= Len(handlers[n])
                    ELSE handlers'[n] = handlers[n]
       /\ window /\ nchan' = nchan + 1 =>
            \A n \in EventNames :
                /\ Len(handlers'[n]) = Len(handlers[n]) + 1
                /\ SubSeq(handlers'[n], 1, Len(handlers[n])) = handlers[n]
      ]_vars

\* A callback of the user was appended behind the callbacks connect() bound
\* to the same event.
C6_Witness ==
    \E n \in EventNames :
        /\ Len(handlers[n]) >= 2
        /\ handlers[n][Len(handlers[n])] \in UserCbs
        /\ handlers[n][1] \notin UserCbs

\* C8: while the getResult wait for job J is unsettled, a binary frame, an
\* 'executing' message naming a current node, an 'executing' message with an
\* empty node and another prompt_id, and a well-formed message of another
\* kind each leave the wait as it is: the promise stays pending, the
\* listener stays attached and no history fetch is issued.
C8_IgnoredMessagesChangeNothing ==
    [][\A c \in Chans, f \in Frames, w \in Waits :
            /\ ChanMessage(c, f)
            /\ wait[w].pc = "listen" /\ wait[w].promise.st = "pending"
            /\ Ignorable(f, wait[w].job)
            => /\ wait'[w] = wait[w]
               /\ handlers' = handlers /\ emitter' = emitter
               /\ historyResult' = historyResult /\ microtasks' = microtasks
      ]_vars

\* An unsettled wait whose listener was handed a message to ignore: it is
\* still pending, still attached and has issued no fetch.
C8_Witness ==
    \E w \in Waits :
        /\ passed[w] /\ ~seen[w]
        /\ wait[w].pc = "listen" /\ wait[w].promise.st = "pending"
        /\ wait[w].issued = 0
        /\ Attached(w)

\* C9: when the decoded body of the response to POST /prompt has an 'error'
\* field, queuePrompt raises an Error that carries the serialized body, and
\* getResult fails with it and adds no listener; when it has none, queuePrompt returns the body and
\* getResult waits for the job identifier the body carries.
C9_QueuePromptRaisesIffErrorBody ==
    /\ [][\A w \in Waits, json \in PromptBodies :
            SubmitResponse(w, json) =>
                LET r == microtasks'[Len(microtasks')].v IN
                IF json.error
                THEN r.throws /\ r.error.t = "Error" /\ r.error = StringifyPrompt(json)
                ELSE ~r.throws /\ r.value = json
        ]_vars
    /\ [][\A w \in Waits :
            microtasks # <<>> /\ Head(microtasks).i = w /\ GetResultResume =>
                LET r == Head(microtasks).v IN
                IF r.throws
                THEN /\ wait'[w].pc = "raised"
                     /\ wait'[w].promise = [st |-> "rejected", val |-> r.error]
                     /\ wait'[w].job = ""
                     /\ handlers' = handlers /\ emitter' = emitter
                ELSE /\ wait'[w].pc = "listen"
                     /\ wait'[w].promise.st = "pending"
                     /\ wait'[w].job = r.value.prompt_id
        ]_vars

\* A getResult call failed with the Error queuePrompt raised, and has no
\* listener.
C9_Witness ==
    \E w \in Waits :
        /\ wait[w].pc = "raised"
        /\ wait[w].promise.st = "rejected" /\ wait[w].promise.val.t = "Error"
        /\ ~Attached(w)
        /\ ws # 0

\* C10: disconnect() with a channel held closes that channel, once, and
\* clears the reference; with no channel held it changes nothing; no
\* channel is ever closed twice, so a second disconnect() is harmless.
C10_DisconnectIdempotent ==
    /\ [](\A c \in Chans : chan[c].closes <= 1)
    /\ [][Disconnect =>
            /\ ws' = 0
            /\ \A c \in Chans :
                chan'[c] = IF c = ws THEN [chan[c] EXCEPT !.closes = 1] ELSE chan[c]
            /\ UNCHANGED <<handlers, emitter, conn, wait, historyResult, microtasks>>
         ]_vars

\* disconnect() has closed a channel that was held and cleared the
\* reference.
C10_Witness == ws = 0 /\ \E c \in Chans : chan[c].closes = 1 /\ chan[c].st = "open"

\* C11: when the listener of a getResult call receives the completion
\* message of its job, the history fetch is issued and completes, then the
\* listener is detached, then the promise resolves: in the step that
\* resolves the promise a history fetch of that call has completed, the
\* value is the entry of the job in the body fetched, and the listener is
\* attached no more.
C11_FetchThenDetachThenResolve ==
    [][\A w \in Waits :
            wait[w].promise.st = "pending" /\ wait'[w].promise.st = "resolved" =>
                /\ wait[w].issued > wait[w].inflight
                /\ ~historyResult.error
                /\ wait'[w].promise.val = Lookup(historyResult, wait[w].job)
                /\ ~Attached(w)'
      ]_vars

\* The descriptors of the output nodes that have an images list, node after
\* node.
RECURSIVE Flatten(_)
Flatten(outputs) ==
    IF outputs = <<>> THEN <<>>
    ELSE (IF Head(outputs).hasImages THEN Head(outputs).images ELSE <<>>)
            \o Flatten(Tail(outputs))

IsPrefix(p, q) == Len(p) <= Len(q) /\ SubSeq(q, 1, Len(p)) = p

\* C12: during getImages at most one image fetch is in flight; the fetches
\* are issued in the order of the output nodes and, within a node, of its
\* descriptors; and the mapping getImages resolves with has, for each node
\* with an images list and for no other, one (blob, descriptor) pair per
\* descriptor, in that order.
C12_ImagesOneAtATimeInOrder ==
    /\ img.inflight <= 1
    /\ IsPrefix(img.log, Flatten(img.outputs))
    /\ img.pc = "done" =>
        /\ img.inflight = 0
        /\ img.log = Flatten(img.outputs)
        /\ img.promise = [st |-> "resolved", val |-> img.outputImages]
        /\ DOMAIN img.outputImages =
                {img.outputs[i].id : i \in {x \in DOMAIN img.outputs : img.outputs[x].hasImages}}
        /\ \A i \in DOMAIN img.outputs :
                img.outputs[i].hasImages =>
                    img.outputImages[img.outputs[i].id] =
                        [m \in DOMAIN img.outputs[i].images |->
                            [blob |-> Blob(img.outputs[i].images[m]),
                             image |-> img.outputs[i].images[m]]]

\* getImages resolved after two fetches for its first node and one for its
\* second.
C12_Witness ==
    /\ img.pc = "done"
    /\ Len(img.outputs) = 2
    /\ Len(img.outputs[1].images) = 2
    /\ Len(img.outputs[2].images) >= 1
    /\ Len(img.log) >= 3

\* The Authorization headers of request r.
Authorization(r) == {p \in r.headers : p[1] = "Authorization"}

\* C13: with a token, every REST request the session issues carries the
\* header Authorization: Bearer {token} and the WebSocket URL ends with the
\* query parameter token={token}; without one, no request carries an
\* Authorization header and the WebSocket URL has no token parameter.
C13_TokenOnEveryRequest ==
    /\ \A i \in DOMAIN sent :
            Authorization(sent[i]) =
                IF token # "" THEN {<<"Authorization", "Bearer " \o token>>} ELSE {}
    /\ \A c \in Chans :
            chan[c].st # "none" =>
                IF token # ""
                THEN SubSeq(chan[c].url, Len(chan[c].url) - 1, Len(chan[c].url))
                        = <<"&token=", token>>
                ELSE "&token=" \notin Range(chan[c].url)

\* C14: this.historyResult is the decoded body of the getHistory call that
\* was the latest to complete with success, whether the user made the call
\* or a getResult listener did: a response without an 'error' field stores
\* its body, a response with one and a failed request leave the field as it
\* is, and nothing else changes it.
C14_HistoryResultIsLatestSuccess ==
    [][/\ \A w \in Waits, json \in AllHistoryBodies :
            HistoryResponse(w, json) =>
                historyResult' = IF json.error THEN historyResult ELSE json
       /\ \A json \in AllHistoryBodies :
            DirectHistoryResponse(json) =>
                historyResult' = IF json.error THEN historyResult ELSE json
       /\ (DirectHistoryFails \/ \E w \in Waits : HistoryFails(w)) =>
            historyResult' = historyResult
       /\ historyResult' # historyResult =>
            \E json \in AllHistoryBodies :
                /\ ~json.error /\ historyResult' = json
                /\ DirectHistoryResponse(json) \/ \E w \in Waits : HistoryResponse(w, json)
      ]_vars

\* A getHistory call of the user has stored its body and the call made by
\* the listener of getResult(fetchOption, prompt) has raised on an error
\* body, which left the field as it was.
C14_Witness ==
    /\ direct.called = 1 /\ direct.inflight = 0
    /\ historyResult = HistoryBody(FALSE, {"j1"})
    /\ \E w \in Waits :
        /\ wait[w].fo # NoArg
        /\ wait[w].issued = 1 /\ wait[w].inflight = 0
        /\ wait[w].promise = [st |-> "rejected", val |-> StringifyHistory(HistoryBody(TRUE, {}))]

\* C15: getQueue without an override issues one GET request whose target
\* is the session's base address followed by '/queue', the base address
\* being there once; getQueue with an override targets the override's host
\* followed by '/queue'.
C15_GetQueueTarget ==
    [][\A fo \in Options :
            GetQueue(fo) =>
                /\ Len(sent') = 1
                /\ sent'[1].url = (IF fo = NoArg THEN host ELSE fo.host) \o <<"/queue">>
                /\ fo = NoArg => sent'[1].method = "GET"
      ]_vars

\* C16: when getResult is called on an open channel, the server accepts the
\* job as J, emits the completion message of J at some time after that,
\* sends no malformed frame and answers the history fetch for J, then the
\* promise of getResult resolves in the end; a completion message that
\* arrives before getResult has added its listener is not lost.
C16_AcceptedJobResolves ==
    \A w \in Waits : (server[w].job # "") ~> (wait[w].promise.st = "resolved")

\* How many times x occurs in q.
Count(q, x) == Len(SelectSeq(q, LAMBDA y : y = x))

\* C17: every getResult call whose job was accepted and whose promise is
\* not settled has exactly one listener among the 'message' callbacks of
\* the channel the session holds, also when getResult was called with no
\* channel held and when disconnect() or connect() ran during the wait.
C17_ExactlyOneListener ==
    \A w \in Waits :
        wait[w].pc = "listen" /\ wait[w].promise.st = "pending" =>
            /\ ws # 0
            /\ Count(Listeners(ws, "message"), OnMessage(w)) = 1

\* C18: once a getResult call was rejected because a text message was not
\* JSON, a later message handed to its listener has no effect: the call
\* issues no history fetch, this.historyResult and the listener lists stay
\* as they are, and the promise stays rejected with the decode error.
C18_NoEffectAfterDecodeError ==
    [][\A w \in Waits :
            wait[w].promise = [st |-> "rejected", val |-> SyntaxError] =>
                /\ wait'[w].promise = wait[w].promise
                /\ \A c \in Chans, f \in Frames :
                        ChanMessage(c, f) /\ OnMessage(w) \in Range(Listeners(c, "message")) =>
                            /\ wait'[w].issued = wait[w].issued
                            /\ historyResult' = historyResult
                            /\ handlers' = handlers /\ emitter' = emitter
      ]_vars

\* What the dispatch of event e on channel c comes to, with frame f as the
\* argument of a 'message'.
Walk(c, e, f) == Dispatch(c, e, IF e = "error" THEN ChanError(c) ELSE NoVal, f)

\* C19: when a callback detaches itself or another callback during the
\* dispatch of an event to this.handlers, every callback that was bound when
\* the dispatch began and is not the one removed is invoked once for each
\* time it was bound, no callback is invoked more often than that, and the
\* dispatch does not fault.
C19_DispatchToleratesOff ==
    window =>
        \A c \in Chans, e \in EventNames :
          \A f \in IF e = "message" THEN Frames ELSE {NoFrame} :
            LET s == Walk(c, e, f) IN
            /\ ~s.fault
            /\ \A cb \in Range(handlers[e]) :
                /\ Count(s.calls, cb) <= Count(handlers[e], cb)
                /\ cb \in Range(s.handlers[e]) => Count(s.calls, cb) = Count(handlers[e], cb)
            /\ Range(s.calls) \subseteq Range(handlers[e])

\* The session holds an open channel and three 'message' callbacks are
\* bound, the second a detaching callback of the user: a frame makes it
\* detach a callback while the third is still to be invoked, and all three
\* are.
C19_Witness ==
    /\ window /\ ws # 0 /\ chan[ws].st = "open" /\ chan[ws].closes = 0
    /\ Len(handlers["message"]) = 3
    /\ handlers["message"][2] \in Detachers
    /\ LET s == Walk(ws, "message", BinaryFrame) IN
       /\ s.handlers["message"] # handlers["message"]
       /\ s.calls = handlers["message"]

\* C20: one getResult call fetches the history at most once and detaches
\* its listener at most once, however many completion messages of its job
\* arrive, one during the first history fetch included: the listener issues
\* no second fetch, and the step that detaches and resolves does not run
\* for a call it has resolved already.
C20_OneFetchOneDetach ==
    /\ [](\A w \in Waits : wait[w].issued <= 1)
    /\ [][\A w \in Waits :
            /\ microtasks # <<>>
            /\ Head(microtasks) = Task("onMessage", w, Head(microtasks).v)
            /\ ~Head(microtasks).v.throws
            /\ OnMessageResume
            => wait[w].promise.st # "resolved"
         ]_vars

\* C21: getResult calls pending together on one session for distinct jobs
\* do not affect each other.  A promise that resolves carries what the
\* response to its own history fetch holds under its own job, never the
\* entry of another job, whatever this.historyResult holds by then; and the
\* completion message of another call's job, the response to another
\* call's history fetch and another call's resolution leave a call as it
\* was, with its listener attached if it was.  In steps: the response to a
\* call's history fetch hands its body to the continuation of that call's
\* listener and to no other; a promise resolves in that continuation only,
\* with the entry of its own job in the body handed to it; and a step of
\* another call changes nothing of this one.
C21_PendingCallsIndependent ==
    /\ [](\A w \in Waits :
            wait[w].promise.st = "resolved" =>
                /\ seen[w]
                /\ wait[w].promise.val \in {HistoryEntry(wait[w].job), Undefined})
    /\ [][\A w \in Waits, json \in AllHistoryBodies :
            HistoryResponse(w, json) =>
                microtasks' = <<Task("onMessage", w, GetHistory(json, historyResult))>>]_vars
    /\ [][\A w \in Waits :
            wait[w].promise.st = "pending" /\ wait'[w].promise.st = "resolved" =>
                /\ OnMessageResume
                /\ Head(microtasks).i = w
                /\ ~Head(microtasks).v.throws
                /\ wait'[w].promise.val = Lookup(Head(microtasks).v.value, wait[w].job)]_vars
    /\ [][\A v \in Waits, w \in Waits :
            v # w /\ wait[v].job # "" /\ wait[v].job # wait[w].job =>
                /\ \A c \in Chans :
                        ChanMessage(c, Executing("", wait[v].job)) => wait'[w] = wait[w]
                /\ (\E json \in AllHistoryBodies : HistoryResponse(v, json)) \/ HistoryFails(v)
                        => wait'[w] = wait[w]
                /\ microtasks # <<>> /\ Head(microtasks).i = v /\ OnMessageResume
                        => /\ wait'[w] = wait[w]
                           /\ Attached(w) => Attached(w)']_vars

\* Two getResult calls for distinct jobs, one of each form, on a session
\* that has reconnected, have both resolved, each with the entry of its own
\* job, and this.historyResult holds the body fetched for the first call
\* only.
C21_Witness ==
    /\ nconn > 1
    /\ wait[1].job # wait[2].job
    /\ wait[1].fo = NoArg /\ wait[2].fo # NoArg
    /\ \A w \in {1, 2} :
            wait[w].promise = [st |-> "resolved", val |-> HistoryEntry(wait[w].job)]
    /\ historyResult = HistoryBody(FALSE, {wait[1].job})

====
